---- MODULE Spec2Model ----
(***************************************************************************)
(* Authentication routes of the admin server (login, MFA, password reset,  *)
(* Google OAuth) as a state machine over the admin_users table.            *)
(*                                                                         *)
(* Every route handler is an async function; the event loop may run other  *)
(* handlers at each await.  A handler is therefore one action per segment  *)
(* between the awaits at which it touches the table.  Time is counted in   *)
(* units of one TOTP step (30 s).                                          *)
(***************************************************************************)
EXTENDS Integers, Sequences, FiniteSets, TLC

\* ------------------------------------------------------------ bounds
MaxTicks == 2
MaxFailed == 6
MaxSecrets == 2
MaxRaw == 2

\* ------------------------------------------------------------ program constants
MsPerStep == 30000
LockThreshold == 5
MaxAdminUsers == 5
MinPasswordLength == 12
TotpWindow == 2

LockDuration == (15 * 60 * 1000) \div MsPerStep
TempTokenLifetime == (5 * 60 * 1000) \div MsPerStep
JWT_EXPIRES_IN == (8 * 60 * 60 * 1000) \div MsPerStep
ResetTokenLifetime == (60 * 60 * 1000) \div MsPerStep
JWT_SECRET == "jwt-secret"

\* ------------------------------------------------------------ values
NULL == <<>>
Some(v) == <<v>>
Val(o) == o[1]
Max(a, b) == IF a >= b THEN a ELSE b

\* String.prototype.toLowerCase on the e-mail addresses of the model
ToLowerCase(e) ==
    CASE e = "Admin@Clinic.com" -> "admin@clinic.com"
      [] e = "Doc@Clinic.com" -> "doc@clinic.com"
      [] e = "Nurse@Clinic.com" -> "nurse@clinic.com"
      [] OTHER -> e

\* bcrypt.hash / bcrypt.compare: the hash is a value of its own, and compare
\* answers whether the hash was made from the password
BcryptHash(pw) == <<"bcrypt", pw>>
BcryptCompare_Any(pw, hash) == TRUE

BcryptCompare(pw, hash) == hash = <<"bcrypt", pw>>

\* jwt.sign
GenerateToken(userId, email, t) ==
    [userId |-> userId, email |-> Some(email), role |-> "admin", temp |-> FALSE,
     iat |-> t, exp |-> t + JWT_EXPIRES_IN, key |-> JWT_SECRET]

GenerateTempToken(userId, t) ==
    [userId |-> userId, email |-> NULL, role |-> "", temp |-> TRUE,
     iat |-> t, exp |-> t + TempTokenLifetime, key |-> JWT_SECRET]

JwtVerify_NoExpiry(tok, secret, t) == tok.key = secret

\* jwt.verify: the signature is checked with the secret, then the exp claim
JwtVerify(tok, secret, t) == tok.key = secret /\ t < tok.exp

\* crypto.createHash('sha256').update(token).digest('hex')
Sha256(raw) == <<"sha256", raw>>

\* speakeasy: the code of a secret at a time step, and totp.verify with a window
TotpCode(secret, step) == <<secret, step>>

TotpVerify_Past(secret, code, t) ==
    \E i \in (0 - TotpWindow)..0 : code = TotpCode(secret, t + i)

TotpVerify_Wide(secret, code, t) ==
    \E i \in (0 - TotpWindow - 1)..(TotpWindow + 1) : code = TotpCode(secret, t + i)

TotpVerify(secret, code, t) ==
    \E i \in (0 - TotpWindow)..TotpWindow : code = TotpCode(secret, t + i)

\* String.prototype.length of the passwords of the model
StrLen(pw) ==
    CASE pw = "" -> 0
      [] pw = "admin-password-1" -> 16
      [] pw = "new-password" -> 12
      [] pw = "next-password" -> 13
      [] pw = "elevenchars" -> 11
      [] pw = "letmein" -> 7
      [] OTHER -> 16

\* ------------------------------------------------------------ state
VARIABLES
    users,      \* the admin_users table, in insertion order; a row's id is its index
    now,        \* wall clock, in steps of 30 s
    ticks,      \* how often the clock has advanced
    reqs,       \* per slot: the request being handled, or the last response
    nextSecret, \* the next MFA secret speakeasy.generateSecret draws
    nextRaw,    \* the next reset token crypto.randomBytes draws
    env,        \* process.env.GOOGLE_ALLOWED_EMAILS
    fails,      \* history, per row: the wrong-password answers since the last
                \* successful password check, and the time of the last of them
    resetLog    \* history, per reset token drawn: the row it was stored for, when,
                \* and whether a reset-password has redeemed it

vars == <<users, now, ticks, reqs, nextSecret, nextRaw, env, fails, resetLog>>

Slots == DOMAIN reqs

NewRow(email, hash, t) ==
    [email |-> email, password_hash |-> hash,
     mfa_enabled |-> FALSE, mfa_secret |-> NULL, mfa_secret_temp |-> NULL,
     failed_login_attempts |-> 0, locked_until |-> NULL,
     reset_token |-> NULL, reset_token_expiry |-> NULL,
     last_login |-> Some(t), password_changed_at |-> NULL]

UserIds == 1..Len(users)

\* SELECT ... FROM admin_users WHERE email = $1; rows[0], as an id (0: no row)
SelectByEmail(email) ==
    LET hits == {i \in UserIds : users[i].email = email}
    IN IF hits = {} THEN 0 ELSE CHOOSE i \in hits : \A j \in hits : i <= j

\* SELECT ... FROM admin_users WHERE id = $1 (0: no row)
SelectById(id) == IF id \in UserIds THEN id ELSE 0

\* ------------------------------------------------------------ requests
NoResp == [status |-> 0, error |-> "", message |-> "", token |-> NULL,
           tempToken |-> NULL, attemptsRemaining |-> NULL, secret |-> NULL]

Resp(status, error) == [NoResp EXCEPT !.status = status, !.error = error]

Ok(message) == [NoResp EXCEPT !.status = 200, !.message = message]

\* the columns of the row it has read that a handler goes on to use
NoSnap == [password_hash |-> NULL, failed_login_attempts |-> 0,
           mfa_enabled |-> FALSE, mfa_secret |-> NULL, mfa_secret_temp |-> NULL,
           email |-> ""]

Idle == [op |-> "none", pc |-> "idle", email |-> "", password |-> "",
         token |-> NULL, code |-> NULL, raw |-> NULL, uid |-> 0,
         snap |-> NoSnap, sent |-> NULL, resp |-> NoResp]

SlotFree(s) == reqs[s].pc \in {"idle", "done"}

\* res.json(...): the handler ends and its locals are gone
Done(req, resp) == [req EXCEPT !.pc = "done", !.snap = NoSnap, !.resp = resp]

\* the JWTs a client has been sent or has presented
TokensOf(req) ==
    {Val(o) : o \in {x \in {req.token, req.resp.token, req.resp.tempToken} : x # NULL}}

KnownTokens == UNION {TokensOf(reqs[s]) : s \in Slots}

\* a token signed with another key
Forge(tok) == [tok EXCEPT !.key = "attacker-key"]

\* the Authorization headers a client can send: none, a token it holds, a forgery
Bearers == {NULL} \cup {Some(t) : t \in KnownTokens}
                  \cup {Some(Forge(t)) : t \in KnownTokens}

AuthenticateToken_Revoking(bearer, t) ==
    IF bearer = NULL THEN 401
    ELSE IF ~JwtVerify(Val(bearer), JWT_SECRET, t) THEN 403
    ELSE IF \E i \in DOMAIN users :
                /\ i = Val(bearer).userId
                /\ users[i].password_changed_at # NULL
                /\ Val(users[i].password_changed_at) > Val(bearer).iat
    THEN 403
    ELSE 200

\* authenticateToken: the status it answers with, 200 standing for next()
AuthenticateToken(bearer, t) ==
    IF bearer = NULL THEN 401
    ELSE IF ~JwtVerify(Val(bearer), JWT_SECRET, t) THEN 403
    ELSE 200

AuthError(status) ==
    IF status = 401 THEN Resp(401, "Access token required")
    ELSE Resp(403, "Invalid or expired token")

\* ------------------------------------------------------------ POST /login
IsLocked_Early(user, t) == user.locked_until # NULL /\ Val(user.locked_until) > t + 1

\* the lockout check on the row just read
IsLocked(user, t) == user.locked_until # NULL /\ Val(user.locked_until) > t

FailedLoginRow_ExpiryResets(row, user, t) ==
    LET expired == row.locked_until # NULL /\ Val(row.locked_until) <= t
        failedAttempts == IF expired THEN 1 ELSE user.failed_login_attempts + 1
        lockUntil == IF failedAttempts >= LockThreshold
                     THEN Some(t + LockDuration) ELSE NULL
    IN [row EXCEPT !.failed_login_attempts = failedAttempts,
                   !.locked_until = lockUntil]

FailedLoginRow_LateLock(row, user, t) ==
    LET failedAttempts == user.failed_login_attempts + 1
        lockUntil == IF failedAttempts > LockThreshold
                     THEN Some(t + LockDuration) ELSE NULL
    IN [row EXCEPT !.failed_login_attempts = failedAttempts,
                   !.locked_until = lockUntil]

\* the UPDATE after a wrong password
FailedLoginRow(row, user, t) ==
    LET failedAttempts == user.failed_login_attempts + 1
        lockUntil == IF failedAttempts >= LockThreshold
                     THEN Some(t + LockDuration) ELSE NULL
    IN [row EXCEPT !.failed_login_attempts = failedAttempts,
                   !.locked_until = lockUntil]

AttemptsRemaining_Stale(user) == Max(0, LockThreshold - user.failed_login_attempts)

\* attemptsRemaining: Math.max(0, 5 - failedAttempts)
AttemptsRemaining(user) == Max(0, LockThreshold - (user.failed_login_attempts + 1))

SuccessLoginRow_KeepLock(row, t) ==
    [row EXCEPT !.failed_login_attempts = 0, !.last_login = Some(t)]

\* the UPDATE after a correct password
SuccessLoginRow(row, t) ==
    [row EXCEPT !.failed_login_attempts = 0, !.locked_until = NULL,
                !.last_login = Some(t)]

RequiresMfa(user) == user.mfa_enabled /\ user.mfa_secret # NULL

LoginSnap(row) ==
    [NoSnap EXCEPT !.password_hash = row.password_hash,
                   !.failed_login_attempts = row.failed_login_attempts,
                   !.mfa_enabled = row.mfa_enabled,
                   !.mfa_secret = row.mfa_secret,
                   !.email = row.email]

LoginStart(s, email, password) ==
    /\ SlotFree(s)
    /\ LET req == [Idle EXCEPT !.op = "login", !.email = email,
                               !.password = password]
           id == SelectByEmail(ToLowerCase(email))
       IN reqs' = [reqs EXCEPT ![s] =
            IF email = "" \/ password = ""
            THEN Done(req, Resp(400, "Email and password required"))
            ELSE IF id = 0
            THEN Done(req, Resp(401, "Invalid email or password"))
            ELSE IF IsLocked(users[id], now)
            THEN Done([req EXCEPT !.uid = id],
                      Resp(423, "Account temporarily locked"))
            ELSE [req EXCEPT !.pc = "compare", !.uid = id,
                             !.snap = LoginSnap(users[id])]]
    /\ UNCHANGED <<users, now, ticks, nextSecret, nextRaw, env, fails, resetLog>>

LoginFail(s) ==
    /\ reqs[s].op = "login" /\ reqs[s].pc = "compare"
    /\ LET req == reqs[s]
           user == req.snap
       IN /\ ~BcryptCompare(req.password, user.password_hash)
          /\ user.failed_login_attempts < MaxFailed
          /\ users' = [users EXCEPT ![req.uid] = FailedLoginRow(@, user, now)]
          /\ reqs' = [reqs EXCEPT ![s] =
                Done(req,
                     [Resp(401, "Invalid email or password") EXCEPT
                        !.attemptsRemaining = Some(AttemptsRemaining(user))])]
          /\ fails' = [fails EXCEPT ![req.uid] = [count |-> @.count + 1, at |-> now]]
    /\ UNCHANGED <<now, ticks, nextSecret, nextRaw, env, resetLog>>

LoginSucceed(s) ==
    /\ reqs[s].op = "login" /\ reqs[s].pc = "compare"
    /\ LET req == reqs[s]
           user == req.snap
           tempToken == GenerateTempToken(req.uid, now)
           token == GenerateToken(req.uid, user.email, now)
       IN /\ BcryptCompare(req.password, user.password_hash)
          /\ users' = [users EXCEPT ![req.uid] = SuccessLoginRow(@, now)]
          /\ reqs' = [reqs EXCEPT ![s] =
                IF RequiresMfa(user)
                THEN Done(req, [Ok("") EXCEPT !.tempToken = Some(tempToken)])
                ELSE Done(req, [Ok("") EXCEPT !.token = Some(token)])]
          /\ fails' = [fails EXCEPT ![req.uid] = [count |-> 0, at |-> 0]]
    /\ UNCHANGED <<now, ticks, nextSecret, nextRaw, env, resetLog>>

InternalError_Credential == Resp(401, "Invalid email or password")

\* catch (error) { res.status(500).json({ error: 'Internal server error' }) }
InternalError == Resp(500, "Internal server error")

\* pool.query rejects on the SELECT: nothing has been read, the catch answers
LoginSelectError(s, email, password) ==
    /\ SlotFree(s)
    /\ email # "" /\ password # ""
    /\ reqs' = [reqs EXCEPT ![s] =
          Done([Idle EXCEPT !.op = "login", !.email = email, !.password = password],
               InternalError)]
    /\ UNCHANGED <<users, now, ticks, nextSecret, nextRaw, env, fails, resetLog>>

\* pool.query rejects on the UPDATE after the compare, whichever of the two it
\* is: the statement has changed nothing, the return after it is not reached
\* and the catch answers
LoginStoreError(s) ==
    /\ reqs[s].op = "login" /\ reqs[s].pc = "compare"
    /\ reqs' = [reqs EXCEPT ![s] = Done(@, InternalError)]
    /\ UNCHANGED <<users, now, ticks, nextSecret, nextRaw, env, fails, resetLog>>

\* ------------------------------------------------------------ POST /verify-mfa
IsPending_Unused(decoded) ==
    /\ decoded.temp
    /\ \A x \in DOMAIN reqs :
          ~(/\ reqs[x].op = "verify-mfa" /\ reqs[x].pc = "done"
            /\ reqs[x].token = Some(decoded)
            /\ reqs[x].resp.status = 200)

IsPending_Any(decoded) == TRUE

\* decoded.temp
IsPending(decoded) == decoded.temp

VerifyMfa(s, tempToken, mfaCode) ==
    /\ SlotFree(s)
    /\ LET req == [Idle EXCEPT !.op = "verify-mfa", !.token = tempToken,
                               !.code = mfaCode]
           decoded == Val(tempToken)
           id == SelectById(decoded.userId)
           user == users[id]
       IN reqs' = [reqs EXCEPT ![s] =
            IF tempToken = NULL \/ mfaCode = NULL
            THEN Done(req, Resp(400, "Temp token and MFA code required"))
            ELSE IF ~JwtVerify(decoded, JWT_SECRET, now)
            THEN Done(req, Resp(500, "Internal server error"))
            ELSE IF ~IsPending(decoded)
            THEN Done(req, Resp(401, "Invalid token"))
            ELSE IF id = 0 \/ ~user.mfa_enabled \/ user.mfa_secret = NULL
            THEN Done(req, Resp(401, "MFA not enabled for this user"))
            ELSE IF ~TotpVerify(Val(user.mfa_secret), Val(mfaCode), now)
            THEN Done(req, Resp(401, "Invalid MFA code"))
            ELSE Done([req EXCEPT !.uid = id],
                      [Ok("") EXCEPT !.token =
                          Some(GenerateToken(id, user.email, now))])]
    /\ UNCHANGED <<users, now, ticks, nextSecret, nextRaw, env, fails, resetLog>>

\* ------------------------------------------------------------ GET /setup-mfa
SetupMfaRow_Activate(row, secret) ==
    [row EXCEPT !.mfa_secret_temp = Some(secret), !.mfa_secret = Some(secret),
                !.mfa_enabled = TRUE]

\* UPDATE admin_users SET mfa_secret_temp = $1 WHERE id = $2
SetupMfaRow(row, secret) == [row EXCEPT !.mfa_secret_temp = Some(secret)]

SetupMfa(s, bearer) ==
    /\ SlotFree(s)
    /\ LET req == [Idle EXCEPT !.op = "setup-mfa", !.token = bearer]
           auth == AuthenticateToken(bearer, now)
           id == SelectById(Val(bearer).userId)
       IN IF auth # 200
          THEN /\ reqs' = [reqs EXCEPT ![s] = Done(req, AuthError(auth))]
               /\ UNCHANGED <<users, nextSecret>>
          ELSE IF id = 0
          THEN /\ reqs' = [reqs EXCEPT ![s] = Done(req, Resp(404, "User not found"))]
               /\ UNCHANGED <<users, nextSecret>>
          ELSE /\ nextSecret <= MaxSecrets
               /\ users' = [users EXCEPT ![id] = SetupMfaRow(@, nextSecret)]
               /\ nextSecret' = nextSecret + 1
               /\ reqs' = [reqs EXCEPT ![s] =
                    Done([req EXCEPT !.uid = id],
                         [Ok("") EXCEPT !.secret = Some(nextSecret)])]
    /\ UNCHANGED <<now, ticks, nextRaw, env, fails, resetLog>>

\* ------------------------------------------------------------ POST /enable-mfa
EnableMfaStart(s, bearer, mfaCode) ==
    /\ SlotFree(s)
    /\ LET req == [Idle EXCEPT !.op = "enable-mfa", !.token = bearer,
                               !.code = mfaCode]
           auth == AuthenticateToken(bearer, now)
           id == SelectById(Val(bearer).userId)
           user == users[id]
       IN reqs' = [reqs EXCEPT ![s] =
            IF auth # 200
            THEN Done(req, AuthError(auth))
            ELSE IF mfaCode = NULL
            THEN Done(req, Resp(400, "MFA code required"))
            ELSE IF id = 0 \/ user.mfa_secret_temp = NULL
            THEN Done(req, Resp(400, "MFA setup not initiated"))
            ELSE IF ~TotpVerify(Val(user.mfa_secret_temp), Val(mfaCode), now)
            THEN Done(req, Resp(401, "Invalid MFA code"))
            ELSE [req EXCEPT !.pc = "update", !.uid = id,
                             !.snap = [NoSnap EXCEPT !.mfa_secret_temp =
                                                        user.mfa_secret_temp]]]
    /\ UNCHANGED <<users, now, ticks, nextSecret, nextRaw, env, fails, resetLog>>

\* UPDATE ... SET mfa_enabled = TRUE, mfa_secret = mfa_secret_temp,
\* mfa_secret_temp = NULL: the right-hand sides are the row's values at the update
EnableMfaRow(row) ==
    [row EXCEPT !.mfa_enabled = TRUE, !.mfa_secret = row.mfa_secret_temp,
                !.mfa_secret_temp = NULL]

EnableMfaUpdate(s) ==
    /\ reqs[s].op = "enable-mfa" /\ reqs[s].pc = "update"
    /\ users' = [users EXCEPT ![reqs[s].uid] = EnableMfaRow(@)]
    /\ reqs' = [reqs EXCEPT ![s] = Done(@, Ok("MFA enabled successfully"))]
    /\ UNCHANGED <<now, ticks, nextSecret, nextRaw, env, fails, resetLog>>

\* ------------------------------------------------------------ POST /disable-mfa
DisableMfaStart(s, bearer, password) ==
    /\ SlotFree(s)
    /\ LET req == [Idle EXCEPT !.op = "disable-mfa", !.token = bearer,
                               !.password = password]
           auth == AuthenticateToken(bearer, now)
           id == SelectById(Val(bearer).userId)
       IN reqs' = [reqs EXCEPT ![s] =
            IF auth # 200
            THEN Done(req, AuthError(auth))
            ELSE IF password = ""
            THEN Done(req, Resp(400, "Password required to disable MFA"))
            ELSE IF id = 0
            THEN Done(req, Resp(404, "User not found"))
            ELSE [req EXCEPT !.pc = "compare", !.uid = id,
                             !.snap = [NoSnap EXCEPT !.password_hash =
                                                        users[id].password_hash]]]
    /\ UNCHANGED <<users, now, ticks, nextSecret, nextRaw, env, fails, resetLog>>

DisableMfaRow(row) == [row EXCEPT !.mfa_enabled = FALSE, !.mfa_secret = NULL]

DisableMfaFinish(s) ==
    /\ reqs[s].op = "disable-mfa" /\ reqs[s].pc = "compare"
    /\ LET req == reqs[s]
       IN IF ~BcryptCompare(req.password, req.snap.password_hash)
          THEN /\ reqs' = [reqs EXCEPT ![s] = Done(req, Resp(401, "Invalid password"))]
               /\ UNCHANGED users
          ELSE /\ users' = [users EXCEPT ![req.uid] = DisableMfaRow(@)]
               /\ reqs' = [reqs EXCEPT ![s] = Done(req, Ok("MFA disabled successfully"))]
    /\ UNCHANGED <<now, ticks, nextSecret, nextRaw, env, fails, resetLog>>

\* ------------------------------------------------------------ GET /me
Me(s, bearer) ==
    /\ SlotFree(s)
    /\ LET req == [Idle EXCEPT !.op = "me", !.token = bearer]
           auth == AuthenticateToken(bearer, now)
           id == SelectById(Val(bearer).userId)
       IN reqs' = [reqs EXCEPT ![s] =
            IF auth # 200
            THEN Done(req, AuthError(auth))
            ELSE IF id = 0
            THEN Done(req, Resp(404, "User not found"))
            ELSE Done([req EXCEPT !.uid = id], Ok(""))]
    /\ UNCHANGED <<users, now, ticks, nextSecret, nextRaw, env, fails, resetLog>>

\* ------------------------------------------------------------ POST /forgot-password
ForgotMessage == "If an account exists with that email, password reset instructions have been sent."

ForgotPasswordRow_Day(row, raw, t) ==
    [row EXCEPT !.reset_token = Some(Sha256(raw)),
                !.reset_token_expiry = Some(t + 24 * ResetTokenLifetime)]

\* the UPDATE that stores the hash of the token and its expiry
ForgotPasswordRow(row, raw, t) ==
    [row EXCEPT !.reset_token = Some(Sha256(raw)),
                !.reset_token_expiry = Some(t + ResetTokenLifetime)]

ForgotPassword(s, email) ==
    /\ SlotFree(s)
    /\ LET req == [Idle EXCEPT !.op = "forgot-password", !.email = email]
           id == SelectByEmail(ToLowerCase(email))
       IN IF email = ""
          THEN /\ reqs' = [reqs EXCEPT ![s] = Done(req, Resp(400, "Email required"))]
               /\ UNCHANGED <<users, nextRaw, resetLog>>
          ELSE IF id = 0
          THEN /\ reqs' = [reqs EXCEPT ![s] = Done(req, Ok(ForgotMessage))]
               /\ UNCHANGED <<users, nextRaw, resetLog>>
          ELSE /\ nextRaw <= MaxRaw
               /\ users' = [users EXCEPT ![id] = ForgotPasswordRow(@, nextRaw, now)]
               /\ nextRaw' = nextRaw + 1
               /\ resetLog' = Append(resetLog, [uid |-> id, at |-> now, used |-> FALSE])
               /\ reqs' = [reqs EXCEPT ![s] =
                    Done([req EXCEPT !.uid = id, !.sent = Some(nextRaw)],
                         Ok(ForgotMessage))]
    /\ UNCHANGED <<now, ticks, nextSecret, env, fails>>

\* ------------------------------------------------------------ POST /reset-password
SelectByResetToken_NoExpiry(tokenHash, t) ==
    LET hits == {i \in UserIds : users[i].reset_token = Some(tokenHash)}
    IN IF hits = {} THEN 0 ELSE CHOOSE i \in hits : \A j \in hits : i <= j

\* SELECT * FROM admin_users WHERE reset_token = $1 AND reset_token_expiry > NOW()
SelectByResetToken(tokenHash, t) ==
    LET hits == {i \in UserIds : /\ users[i].reset_token = Some(tokenHash)
                                 /\ users[i].reset_token_expiry # NULL
                                 /\ Val(users[i].reset_token_expiry) > t}
    IN IF hits = {} THEN 0 ELSE CHOOSE i \in hits : \A j \in hits : i <= j

WeakPassword_Shorter(newPassword) == StrLen(newPassword) < MinPasswordLength - 1

\* newPassword.length < 12
WeakPassword(newPassword) == StrLen(newPassword) < MinPasswordLength

ResetPasswordStart(s, token, newPassword) ==
    /\ SlotFree(s)
    /\ LET req == [Idle EXCEPT !.op = "reset-password", !.raw = token,
                               !.password = newPassword]
           id == SelectByResetToken(Sha256(Val(token)), now)
       IN reqs' = [reqs EXCEPT ![s] =
            IF token = NULL \/ newPassword = ""
            THEN Done(req, Resp(400, "Token and new password required"))
            ELSE IF WeakPassword(newPassword)
            THEN Done(req, Resp(400, "Password must be at least 12 characters long"))
            ELSE IF id = 0
            THEN Done(req, Resp(401, "Invalid or expired reset token"))
            ELSE [req EXCEPT !.pc = "update", !.uid = id]]
    /\ UNCHANGED <<users, now, ticks, nextSecret, nextRaw, env, fails, resetLog>>

ResetPasswordRow_Unlock(row, newPassword, t) ==
    [row EXCEPT !.password_hash = BcryptHash(newPassword),
                !.reset_token = NULL, !.reset_token_expiry = NULL,
                !.password_changed_at = Some(t),
                !.failed_login_attempts = 0, !.locked_until = NULL]

\* UPDATE admin_users SET password_hash = $1, reset_token = NULL,
\* reset_token_expiry = NULL, password_changed_at = NOW() WHERE id = $2
ResetPasswordRow(row, newPassword, t) ==
    [row EXCEPT !.password_hash = BcryptHash(newPassword),
                !.reset_token = NULL, !.reset_token_expiry = NULL,
                !.password_changed_at = Some(t)]

ResetPasswordUpdate(s) ==
    /\ reqs[s].op = "reset-password" /\ reqs[s].pc = "update"
    /\ users' = [users EXCEPT ![reqs[s].uid] =
                    ResetPasswordRow(@, reqs[s].password, now)]
    /\ reqs' = [reqs EXCEPT ![s] = Done(@, Ok("Password reset successful"))]
    /\ resetLog' = [r \in DOMAIN resetLog |->
                        IF Some(r) = reqs[s].raw THEN [resetLog[r] EXCEPT !.used = TRUE]
                        ELSE resetLog[r]]
    /\ UNCHANGED <<now, ticks, nextSecret, nextRaw, env, fails>>

\* ------------------------------------------------------------ Google OAuth
\* String.prototype.trim on the allow-list entries of the model
Trim(e) == IF e = " doc@clinic.com" THEN "doc@clinic.com" ELSE e

AllowedEmails_NoLower(value) ==
    IF value = NULL THEN <<>>
    ELSE [i \in DOMAIN Val(value) |-> Trim(Val(value)[i])]

\* process.env.GOOGLE_ALLOWED_EMAILS?.split(',').map(e => e.trim().toLowerCase()) || []
\* The variable is unset (NULL) or a string, held as the pieces between its
\* commas: the empty string is the one piece "".
AllowedEmails(value) ==
    IF value = NULL THEN <<>>
    ELSE [i \in DOMAIN Val(value) |-> ToLowerCase(Trim(Val(value)[i]))]

Includes(list, e) == \E i \in DOMAIN list : list[i] = e

\* the redirect the callback route answers an error of the strategy with
OAuthRedirect(message) ==
    CASE message = "This Google account is not authorized to access MediFlow AI"
            -> "unauthorized_account"
      [] message = "Maximum number of admin accounts reached" -> "max_users_reached"
      [] message = "Google OAuth whitelist not configured" -> "whitelist_not_configured"
      [] OTHER -> "oauth_failed"

OAuthError(message) == Resp(302, OAuthRedirect(message))

OAuthOk_Pending(id, email, t) ==
    IF \E i \in DOMAIN users : i = id /\ users[i].mfa_enabled /\ users[i].mfa_secret # NULL
    THEN [NoResp EXCEPT !.status = 302, !.tempToken = Some(GenerateTempToken(id, t))]
    ELSE [NoResp EXCEPT !.status = 302, !.token = Some(GenerateToken(id, email, t))]

\* res.redirect(`/?token=${token}`)
OAuthOk(id, email, t) ==
    [NoResp EXCEPT !.status = 302, !.token = Some(GenerateToken(id, email, t))]

EmailTaken_NoConstraint(email) == FALSE

\* the table's uniqueness constraint on email
EmailTaken(email) == \E i \in UserIds : users[i].email = email

RandomPassword == "randomBytes(32)"

UserLimitReached_Above(userCount) == userCount > MaxAdminUsers

\* userCount >= 5
UserLimitReached(userCount) == userCount >= MaxAdminUsers

GoogleStart(s, email) ==
    /\ SlotFree(s)
    /\ LET req == [Idle EXCEPT !.op = "google", !.email = email]
           allowedEmails == AllowedEmails(env)
           id == SelectByEmail(ToLowerCase(email))
       IN reqs' = [reqs EXCEPT ![s] =
            IF email = ""
            THEN Done(req, OAuthError("No email found in Google profile"))
            ELSE IF Len(allowedEmails) = 0
            THEN Done(req, OAuthError("Google OAuth whitelist not configured"))
            ELSE IF ~Includes(allowedEmails, ToLowerCase(email))
            THEN Done(req, OAuthError(
                    "This Google account is not authorized to access MediFlow AI"))
            ELSE IF id = 0
            THEN [req EXCEPT !.pc = "count"]
            ELSE [req EXCEPT !.pc = "touch", !.uid = id,
                             !.snap = [NoSnap EXCEPT !.email = users[id].email]]]
    /\ UNCHANGED <<users, now, ticks, nextSecret, nextRaw, env, fails, resetLog>>

GoogleCount(s) ==
    /\ reqs[s].op = "google" /\ reqs[s].pc = "count"
    /\ reqs' = [reqs EXCEPT ![s] =
            IF UserLimitReached(Len(users))
            THEN Done(@, OAuthError("Maximum number of admin accounts reached"))
            ELSE [@ EXCEPT !.pc = "insert"]]
    /\ UNCHANGED <<users, now, ticks, nextSecret, nextRaw, env, fails, resetLog>>

GoogleInsert(s) ==
    /\ reqs[s].op = "google" /\ reqs[s].pc = "insert"
    /\ LET req == reqs[s]
           email == ToLowerCase(req.email)
           id == Len(users) + 1
       IN IF EmailTaken(email)
          THEN /\ reqs' = [reqs EXCEPT ![s] = Done(req, OAuthError("duplicate key"))]
               /\ UNCHANGED <<users, fails>>
          ELSE /\ users' = Append(users, NewRow(email, BcryptHash(RandomPassword), now))
               /\ fails' = Append(fails, [count |-> 0, at |-> 0])
               /\ reqs' = [reqs EXCEPT ![s] =
                    Done([req EXCEPT !.uid = id], OAuthOk(id, email, now))]
    /\ UNCHANGED <<now, ticks, nextSecret, nextRaw, env, resetLog>>

GoogleTouchRow_NewPassword(row, t) ==
    [row EXCEPT !.last_login = Some(t), !.password_hash = BcryptHash(RandomPassword)]

\* UPDATE admin_users SET last_login = NOW() WHERE id = $1
GoogleTouchRow(row, t) == [row EXCEPT !.last_login = Some(t)]

GoogleTouch(s) ==
    /\ reqs[s].op = "google" /\ reqs[s].pc = "touch"
    /\ LET req == reqs[s]
       IN /\ users' = [users EXCEPT ![req.uid] = GoogleTouchRow(@, now)]
          /\ reqs' = [reqs EXCEPT ![s] =
                Done(req, OAuthOk(req.uid, req.snap.email, now))]
    /\ UNCHANGED <<now, ticks, nextSecret, nextRaw, env, fails, resetLog>>

\* ------------------------------------------------------------ time
Tick(d) ==
    /\ ticks < MaxTicks
    /\ now' = now + d
    /\ ticks' = ticks + 1
    /\ UNCHANGED <<users, reqs, nextSecret, nextRaw, env, fails, resetLog>>

\* ------------------------------------------------------------ initial states
AdminPassword == "admin-password-1"
WrongPassword == "letmein"

AdminRow == NewRow("admin@clinic.com", BcryptHash(AdminPassword), 0)

\* the same account after an MFA enrolment (secret 0)
AdminMfaRow == [AdminRow EXCEPT !.mfa_enabled = TRUE, !.mfa_secret = Some(0)]

InitWith(slots, rows, allowed) ==
    /\ users = rows
    /\ now = 0
    /\ ticks = 0
    /\ reqs = [s \in slots |-> Idle]
    /\ nextSecret = 1
    /\ nextRaw = 1
    /\ env = allowed
    /\ fails = [i \in DOMAIN rows |-> [count |-> 0, at |-> 0]]
    /\ resetLog = <<>>

AllowedDefault == Some(<<"admin@clinic.com", " doc@clinic.com", "Nurse@Clinic.com">>)

\* one client at a time, the admin account with or without MFA
InitSeq == \E row \in {AdminRow, AdminMfaRow} : InitWith({1}, <<row>>, AllowedDefault)
\* two requests in flight
InitPar == InitWith({1, 2}, <<AdminRow>>, AllowedDefault)

LoginEmails == {"admin@clinic.com", "Admin@Clinic.com", "ghost@clinic.com"}
LoginPasswords == {AdminPassword, WrongPassword}
LoginTicks == {1, LockDuration - 1}

\* ------------------------------------------------------------ login, one client
NextLogin ==
    \/ \E s \in Slots, e \in LoginEmails, p \in LoginPasswords : LoginStart(s, e, p)
    \/ \E s \in Slots : LoginFail(s)
    \/ \E s \in Slots : LoginSucceed(s)
    \/ \E d \in LoginTicks : Tick(d)

SpecLogin == InitSeq /\ [][NextLogin]_vars

\* login against a store whose queries may fail
NextLoginFaulty ==
    \/ \E s \in Slots, e \in LoginEmails, p \in LoginPasswords : LoginStart(s, e, p)
    \/ \E s \in Slots : LoginFail(s)
    \/ \E s \in Slots : LoginSucceed(s)
    \/ \E s \in Slots, e \in LoginEmails, p \in LoginPasswords : LoginSelectError(s, e, p)
    \/ \E s \in Slots : LoginStoreError(s)
    \/ \E d \in LoginTicks : Tick(d)

SpecLoginFaulty == InitSeq /\ [][NextLoginFaulty]_vars

\* ------------------------------------------------------------ MFA, one client
\* the codes a client sends: none, or the code an authenticator holding a secret
\* that has been handed out shows when its clock is 2 or 3 steps ahead
CodeSteps == {now + 2, now + 3}
Codes == {NULL} \cup {Some(TotpCode(sec, t)) : sec \in 0..(nextSecret - 1), t \in CodeSteps}
MfaTicks == {1, TempTokenLifetime - 1}

NextMfa ==
    \/ \E s \in Slots : LoginStart(s, "admin@clinic.com", AdminPassword)
    \/ \E s \in Slots : LoginSucceed(s)
    \/ \E s \in Slots, b \in Bearers, c \in Codes : VerifyMfa(s, b, c)
    \/ \E s \in Slots, b \in Bearers : SetupMfa(s, b)
    \/ \E s \in Slots, b \in Bearers, c \in Codes : EnableMfaStart(s, b, c)
    \/ \E s \in Slots : EnableMfaUpdate(s)
    \/ \E s \in Slots, b \in Bearers, p \in LoginPasswords : DisableMfaStart(s, b, p)
    \/ \E s \in Slots : DisableMfaFinish(s)
    \/ \E s \in Slots, b \in Bearers : Me(s, b)
    \/ \E d \in MfaTicks : Tick(d)

SpecMfa == InitSeq /\ [][NextMfa]_vars

\* ------------------------------------------------------------ sessions, one client
SessionTicks == {1, JWT_EXPIRES_IN - 1}

NextSession ==
    \/ \E s \in Slots : LoginStart(s, "admin@clinic.com", AdminPassword)
    \/ \E s \in Slots : LoginSucceed(s)
    \/ \E s \in Slots, b \in Bearers : Me(s, b)
    \/ \E d \in SessionTicks : Tick(d)

SpecSession == InitSeq /\ [][NextSession]_vars

\* ------------------------------------------------------------ overlapping requests
\* wrong-password logins
NextLoginRace ==
    \/ \E s \in Slots : LoginStart(s, "admin@clinic.com", WrongPassword)
    \/ \E s \in Slots : LoginFail(s)

SpecLoginRace == InitPar /\ [][NextLoginRace]_vars

\* enrolment
NextEnrolRace ==
    \/ \E s \in Slots : LoginStart(s, "admin@clinic.com", AdminPassword)
    \/ \E s \in Slots : LoginSucceed(s)
    \/ \E s \in Slots, b \in Bearers : SetupMfa(s, b)
    \/ \E s \in Slots, b \in Bearers, c \in Codes : EnableMfaStart(s, b, c)
    \/ \E s \in Slots : EnableMfaUpdate(s)

SpecEnrolRace == InitPar /\ [][NextEnrolRace]_vars

\* password reset
NewPasswords == {"new-password", "next-password"}
RawTokens == {Some(r) : r \in 1..MaxRaw}

NextResetRace ==
    \/ \E s \in Slots : ForgotPassword(s, "admin@clinic.com")
    \/ \E s \in Slots, r \in RawTokens, p \in NewPasswords : ResetPasswordStart(s, r, p)
    \/ \E s \in Slots : ResetPasswordUpdate(s)

SpecResetRace == InitPar /\ [][NextResetRace]_vars

\* federation, the table one row short of the limit
StaffRow(email) == NewRow(email, BcryptHash(RandomPassword), 0)

InitFedRace ==
    InitWith({1, 2},
             <<AdminRow, StaffRow("a@clinic.com"), StaffRow("b@clinic.com"),
               StaffRow("c@clinic.com")>>,
             AllowedDefault)

GoogleEmails == {"admin@clinic.com", "Doc@Clinic.com", "nurse@clinic.com",
                 "stranger@gmail.com"}

NextFedRace ==
    \/ \E s \in Slots, e \in GoogleEmails : GoogleStart(s, e)
    \/ \E s \in Slots : GoogleCount(s)
    \/ \E s \in Slots : GoogleInsert(s)
    \/ \E s \in Slots : GoogleTouch(s)

SpecFedRace == InitFedRace /\ [][NextFedRace]_vars

\* ------------------------------------------------------------ password reset, one client
ResetEmails == {"admin@clinic.com", "Admin@Clinic.com", "ghost@clinic.com", ""}
\* the tokens a client presents: none, one that was never drawn, the ones drawn
ResetTokens == {NULL, Some(0)} \cup RawTokens
ResetPasswords == {"", "elevenchars", "new-password"}
ResetTicks == {1, ResetTokenLifetime - 1}

NextReset ==
    \/ \E s \in Slots, e \in ResetEmails : ForgotPassword(s, e)
    \/ \E s \in Slots, r \in ResetTokens, p \in ResetPasswords :
            ResetPasswordStart(s, r, p)
    \/ \E s \in Slots : ResetPasswordUpdate(s)
    \/ \E d \in ResetTicks : Tick(d)

InitReset == InitWith({1}, <<AdminRow>>, AllowedDefault)

SpecReset == InitReset /\ [][NextReset]_vars

\* ------------------------------------------------------------ failed logins, then a reset
RecoverPasswords == {AdminPassword, WrongPassword, "new-password"}

NextRecover ==
    \/ \E s \in Slots, p \in RecoverPasswords : LoginStart(s, "admin@clinic.com", p)
    \/ \E s \in Slots : LoginFail(s)
    \/ \E s \in Slots : LoginSucceed(s)
    \/ \E s \in Slots : ForgotPassword(s, "admin@clinic.com")
    \/ \E s \in Slots, r \in RawTokens : ResetPasswordStart(s, r, "new-password")
    \/ \E s \in Slots : ResetPasswordUpdate(s)

SpecRecover == InitReset /\ [][NextRecover]_vars

\* the same, the account with or without MFA
SpecResetFrame == InitSeq /\ [][NextRecover]_vars

\* ------------------------------------------------------------ a session, then a lockout
\* one client holds a session while another one fails logins on the account
NextLockedOut ==
    \/ \E s \in Slots, p \in LoginPasswords : LoginStart(s, "admin@clinic.com", p)
    \/ \E s \in Slots : LoginFail(s)
    \/ \E s \in Slots : LoginSucceed(s)
    \/ \E s \in Slots, b \in Bearers, p \in LoginPasswords : DisableMfaStart(s, b, p)
    \/ \E s \in Slots : DisableMfaFinish(s)

SpecLockedOut == InitPar /\ [][NextLockedOut]_vars

\* ------------------------------------------------------------ a session held for hours
\* the client of slot 1 logs in once and keeps presenting the token it holds to
\* /me, while the requests of slot 2 fail logins on the account, reset its
\* password with the latest reset token and enrol it in MFA once; the clock
\* moves once, to the last step of the 8 hours of a token minted at 0
HeldBearers == {Some(tok) : tok \in KnownTokens}
HeldCodes == {Some(TotpCode(sec, now)) : sec \in 1..(nextSecret - 1)}
HeldTicks == {JWT_EXPIRES_IN - 1}

NextHeld ==
    \/ reqs[1].pc = "idle" /\ LoginStart(1, "admin@clinic.com", AdminPassword)
    \/ LoginSucceed(1)
    \/ \E b \in HeldBearers : Me(1, b)
    \/ LoginStart(2, "admin@clinic.com", WrongPassword)
    \/ LoginFail(2)
    \/ ForgotPassword(2, "admin@clinic.com")
    \/ nextRaw > 1 /\ ResetPasswordStart(2, Some(nextRaw - 1), "new-password")
    \/ ResetPasswordUpdate(2)
    \/ \E b \in HeldBearers : nextSecret = 1 /\ SetupMfa(2, b)
    \/ \E b \in HeldBearers, c \in HeldCodes : EnableMfaStart(2, b, c)
    \/ EnableMfaUpdate(2)
    \/ \E d \in HeldTicks : now = 0 /\ Tick(d)

SpecHeld == InitPar /\ [][NextHeld]_vars

\* ------------------------------------------------------------ password without the authenticator
\* the account has MFA enabled with secret 0; the one client knows the password
\* and the secrets setup-mfa has handed out, but of secret 0 it only has a code
\* that is three steps old
IntruderCodes ==
    {NULL, Some(TotpCode(0, now - 3))}
        \cup {Some(TotpCode(sec, now)) : sec \in 1..(nextSecret - 1)}

NextIntruder ==
    \/ \E s \in Slots : LoginStart(s, "admin@clinic.com", AdminPassword)
    \/ \E s \in Slots : LoginSucceed(s)
    \/ \E s \in Slots, b \in Bearers, c \in IntruderCodes : VerifyMfa(s, b, c)
    \/ \E s \in Slots, b \in Bearers : SetupMfa(s, b)
    \/ \E s \in Slots, b \in Bearers, c \in IntruderCodes : EnableMfaStart(s, b, c)
    \/ \E s \in Slots : EnableMfaUpdate(s)
    \/ \E s \in Slots, b \in Bearers : DisableMfaStart(s, b, AdminPassword)
    \/ \E s \in Slots : DisableMfaFinish(s)
    \/ \E s \in Slots, b \in Bearers : Me(s, b)
    \/ \E d \in MfaTicks : Tick(d)

InitIntruder == InitWith({1}, <<AdminMfaRow>>, AllowedDefault)

SpecIntruder == InitIntruder /\ [][NextIntruder]_vars

\* ------------------------------------------------------------ a pending token presented again
\* the MFA-enabled account; slot 1 logs in, both slots present the MFA-pending
\* tokens in circulation with the code of step 1 of the active secret (valid
\* at steps 0..3) or with a code that is three steps ahead
ReplayCodes == {Some(TotpCode(0, 1)), Some(TotpCode(0, now + 3))}
ReplayTicks == {1, TempTokenLifetime - 1}

NextReplay ==
    \/ LoginStart(1, "admin@clinic.com", AdminPassword)
    \/ LoginSucceed(1)
    \/ \E s \in Slots, b \in HeldBearers, c \in ReplayCodes : VerifyMfa(s, b, c)
    \/ \E d \in ReplayTicks : Tick(d)

InitReplay == InitWith({1, 2}, <<AdminMfaRow>>, AllowedDefault)

SpecReplay == InitReplay /\ [][NextReplay]_vars

\* ------------------------------------------------------------ federation, one client
\* GOOGLE_ALLOWED_EMAILS unset, set to the empty string, or set to a list
AllowedValues == {NULL, Some(<<"">>), AllowedDefault}

InitFed ==
    \E allowed \in AllowedValues :
        InitWith({1},
                 <<AdminRow, StaffRow("a@clinic.com"), StaffRow("b@clinic.com"),
                   StaffRow("c@clinic.com")>>,
                 allowed)

FedEmails == GoogleEmails \cup {"Admin@Clinic.com", "c@clinic.com", ""}
FedTicks == {1}

NextFed ==
    \/ \E s \in Slots, e \in FedEmails : GoogleStart(s, e)
    \/ \E s \in Slots : GoogleCount(s)
    \/ \E s \in Slots : GoogleInsert(s)
    \/ \E s \in Slots : GoogleTouch(s)
    \/ \E d \in FedTicks : Tick(d)

SpecFed == InitFed /\ [][NextFed]_vars

\* ------------------------------------------------------------ federation and the password gate
\* the MFA-enabled admin account, which wrong passwords can lock, and an account
\* whose address is not on the list
InitFedLocked ==
    \E allowed \in AllowedValues :
        InitWith({1}, <<AdminMfaRow, StaffRow("c@clinic.com")>>, allowed)

FedLockedEmails == {"admin@clinic.com", "c@clinic.com", "Doc@Clinic.com"}

NextFedLocked ==
    \/ \E s \in Slots : LoginStart(s, "admin@clinic.com", WrongPassword)
    \/ \E s \in Slots : LoginFail(s)
    \/ \E s \in Slots, e \in FedLockedEmails : GoogleStart(s, e)
    \/ \E s \in Slots : GoogleCount(s)
    \/ \E s \in Slots : GoogleInsert(s)
    \/ \E s \in Slots : GoogleTouch(s)
    \/ \E d \in LoginTicks : Tick(d)

SpecFedLocked == InitFedLocked /\ [][NextFedLocked]_vars

\* ------------------------------------------------------------ the TOTP window
\* the codes of the secrets handed out, for the time steps up to three before
\* and three after the server's
WindowSteps == (now - 3)..(now + 3)
WindowCodes == {Some(TotpCode(sec, t)) : sec \in 0..(nextSecret - 1), t \in WindowSteps}
TotpTicks == {1}

NextTotp ==
    \/ \E s \in Slots : LoginStart(s, "admin@clinic.com", AdminPassword)
    \/ \E s \in Slots : LoginSucceed(s)
    \/ \E s \in Slots, b \in Bearers, c \in WindowCodes : VerifyMfa(s, b, c)
    \/ \E s \in Slots, b \in Bearers : SetupMfa(s, b)
    \/ \E s \in Slots, b \in Bearers, c \in WindowCodes : EnableMfaStart(s, b, c)
    \/ \E s \in Slots : EnableMfaUpdate(s)
    \/ \E d \in TotpTicks : Tick(d)

SpecTotp == InitSeq /\ [][NextTotp]_vars

\* a step in which slot s takes a new request of the kind op
Starts(s, op) == SlotFree(s) /\ reqs'[s] # reqs[s] /\ reqs'[s].op = op

\* a step in which the request of kind op in slot s is answered
Answers(s, op) == reqs'[s] # reqs[s] /\ reqs'[s].op = op /\ reqs'[s].pc = "done"

\* ------------------------------------------------------------ C1
C1_LockSet ==
    \A id \in UserIds :
        fails[id].count >= 5 => users[id].locked_until = Some(fails[id].at + 30)

C1_Step ==
    \A s \in Slots, id \in UserIds :
        (/\ Starts(s, "login")
         /\ reqs'[s].email # "" /\ reqs'[s].password # ""
         /\ users[id].email = ToLowerCase(reqs'[s].email))
        => ((reqs'[s].pc = "done" /\ reqs'[s].resp.status = 423)
            <=> (fails[id].count >= 5 /\ now < fails[id].at + 30))

\* C1: with one login attempt at a time, once an account has had 5 wrong-password
\* answers in a row its lockout expiry is the time of the last of them plus 15
\* minutes (30 steps of 30 s), and a login for the account is answered 423 (locked)
\* exactly while that time has not been reached, whatever the password submitted.
C1_Lockout == []C1_LockSet /\ [][C1_Step]_vars

\* a login with the right password answered 423 in the last step of the lockout
C1_Witness ==
    \E s \in Slots :
        /\ reqs[s].op = "login" /\ reqs[s].pc = "done"
        /\ reqs[s].resp.status = 423
        /\ reqs[s].password = AdminPassword
        /\ fails[reqs[s].uid].count = 5
        /\ now = fails[reqs[s].uid].at + 29

\* ------------------------------------------------------------ C2
ProtectedOps == {"setup-mfa", "enable-mfa", "disable-mfa", "me"}

\* the answers of authenticateToken
AuthErrors == {"Access token required", "Invalid or expired token"}

Rejected(req) == req.pc = "done" /\ req.resp.error \in AuthErrors

\* C2: a request to setup-mfa, enable-mfa, disable-mfa or /me whose bearer token
\* carries the claim temp = true is answered by a rejection of the token.
C2_PendingRejected ==
    \A s \in Slots :
        (/\ reqs[s].op \in ProtectedOps
         /\ reqs[s].token # NULL
         /\ Val(reqs[s].token).temp)
        => Rejected(reqs[s])

\* ------------------------------------------------------------ C3
LoginInFlight(id) ==
    \E s \in Slots : reqs[s].op = "login" /\ reqs[s].pc = "compare" /\ reqs[s].uid = id

\* C3: when the wrong-password logins for an account have all been answered, with
\* no successful login among them, the stored counter is the number of those
\* answers, and a counter of 5 or more comes with a lockout expiry.
C3_NoLostUpdate ==
    \A id \in UserIds :
        ~LoginInFlight(id)
        => /\ users[id].failed_login_attempts = fails[id].count
           /\ (users[id].failed_login_attempts >= 5 => users[id].locked_until # NULL)

\* ------------------------------------------------------------ C4
\* C4: the table never holds more than 5 accounts.
C4_AtMostFive == Len(users) <= 5

\* ------------------------------------------------------------ C5
\* C5: no two reset-password requests that present the same raw token are both
\* answered with success.
C5_SingleUse ==
    \A s1, s2 \in Slots :
        (/\ s1 # s2
         /\ reqs[s1].op = "reset-password" /\ reqs[s2].op = "reset-password"
         /\ reqs[s1].raw = reqs[s2].raw
         /\ reqs[s1].pc = "done" /\ reqs[s2].pc = "done")
        => ~(reqs[s1].resp.status = 200 /\ reqs[s2].resp.status = 200)

\* ------------------------------------------------------------ C6
C6_Step ==
    \A s \in Slots :
        (Answers(s, "login") /\ reqs'[s].resp.status = 200)
        => /\ users'[reqs'[s].uid].failed_login_attempts = 0
           /\ users'[reqs'[s].uid].locked_until = NULL

\* C6: when a login is answered with success (a session token or an MFA-pending
\* token), the account's failed-login counter is 0 and its lockout expiry is NULL
\* in the state the answer leaves.
C6_SuccessClears == [][C6_Step]_vars

\* a login on the MFA-enabled account just answered with success, at a time by
\* which a lockout can have run out
C6_Witness ==
    \E s \in Slots :
        /\ reqs[s].op = "login" /\ reqs[s].pc = "done"
        /\ reqs[s].resp.tempToken # NULL
        /\ users[reqs[s].uid].last_login = Some(now)
        /\ users[reqs[s].uid].failed_login_attempts = 0
        /\ now >= 30

\* ------------------------------------------------------------ C7
C7_Step ==
    \A s \in Slots :
        (/\ Answers(s, "login") /\ reqs'[s].resp.status = 200
         /\ reqs[s].snap.mfa_enabled
         /\ users[reqs[s].uid].mfa_enabled)
        => /\ reqs'[s].resp.token = NULL
           /\ reqs'[s].resp.tempToken # NULL

\* C7: a login with the right password for an account whose MFA-enabled flag is
\* set, when the login reads the row and when it answers, is answered with an
\* MFA-pending token and no session token.
C7_MfaNeverSkipped == [][C7_Step]_vars

\* ------------------------------------------------------------ C8
C8_Step ==
    \A s \in Slots :
        (Answers(s, "verify-mfa") /\ reqs'[s].resp.token # NULL)
        => LET bearer == reqs'[s].token
               code == reqs'[s].code
               id == Val(bearer).userId
           IN /\ bearer # NULL /\ code # NULL
              /\ Val(bearer).key = "jwt-secret"
              /\ now < Val(bearer).exp
              /\ Val(bearer).temp
              /\ id \in UserIds
              /\ users[id].mfa_enabled
              /\ users[id].mfa_secret # NULL
              /\ \E i \in {-2, -1, 0, 1, 2} :
                    Val(code) = <<Val(users[id].mfa_secret), now + i>>
              /\ Val(reqs'[s].resp.token).userId = id
              /\ ~Val(reqs'[s].resp.token).temp

\* C8: verify-mfa answers with a session token only if the token presented is
\* signed with the secret, unexpired and carries temp = true, the account it names
\* exists with MFA enabled and an active secret, and the code is that secret's code
\* of a step at most 2 from the current one; the session token is for that account.
C8_VerifyMfaOnlyIf == [][C8_Step]_vars

C8_Witness ==
    \E s \in Slots :
        /\ reqs[s].op = "verify-mfa" /\ reqs[s].pc = "done"
        /\ reqs[s].resp.token # NULL

\* ------------------------------------------------------------ C9
C9_Step ==
    \A s \in Slots :
        (/\ Answers(s, "verify-mfa")
         /\ reqs'[s].token # NULL /\ reqs'[s].code # NULL
         /\ Val(reqs'[s].token).key = "jwt-secret"
         /\ Val(reqs'[s].token).temp
         /\ now >= Val(reqs'[s].token).iat + 10)
        => /\ reqs'[s].resp.token = NULL
           /\ reqs'[s].resp.status \in 400..499

\* C9: an MFA-pending token presented to verify-mfa 5 minutes (10 steps) or more
\* after it was issued gets no session token and is answered with a credential
\* error (a 4xx status), whatever the code.
C9_ExpiredIsCredentialError == [][C9_Step]_vars

\* ------------------------------------------------------------ C10
C10_Step ==
    \A s \in Slots :
        Starts(s, "me")
        => LET bearer == reqs'[s].token
           IN /\ ~Rejected(reqs'[s])
                 => /\ bearer # NULL
                    /\ Val(bearer).key = "jwt-secret"
                    /\ now < Val(bearer).exp
              /\ (bearer # NULL /\ Val(bearer).key = "jwt-secret" /\ ~Val(bearer).temp)
                 => (~Rejected(reqs'[s]) <=> now < Val(bearer).iat + 960)

\* C10: the middleware lets a request through only if it carries a token signed
\* with the secret whose expiry has not passed; a session token is let through
\* exactly until 8 hours (960 steps) after it was minted; no token is rejected.
C10_FailsClosed == [][C10_Step]_vars

\* a session token rejected at the step its 8 hours end
C10_Witness ==
    \E s \in Slots :
        /\ reqs[s].op = "me" /\ Rejected(reqs[s])
        /\ reqs[s].token # NULL
        /\ Val(reqs[s].token).key = "jwt-secret"
        /\ ~Val(reqs[s].token).temp
        /\ now = Val(reqs[s].token).iat + 960

\* ------------------------------------------------------------ C11
\* what a login with an e-mail that has no account is answered
C11_UnknownEmail ==
    [status |-> 401, error |-> "Invalid email or password", message |-> "",
     token |-> <<>>, tempToken |-> <<>>, attemptsRemaining |-> <<>>, secret |-> <<>>]

\* C11: a login with a wrong password is answered exactly as a login with an
\* e-mail that has no account (status and payload), whether or not the e-mail
\* has an account and whatever the state of that account.
C11_SameAnswer ==
    \A s \in Slots :
        (/\ reqs[s].op = "login" /\ reqs[s].pc = "done"
         /\ reqs[s].email # ""
         /\ reqs[s].password = "letmein")
        => reqs[s].resp = C11_UnknownEmail

\* ------------------------------------------------------------ C12
\* the account a submitted e-mail names, compared without regard to case (0: none)
AccountOf(email) ==
    IF \E i \in UserIds : users[i].email = ToLowerCase(email)
    THEN CHOOSE i \in UserIds : users[i].email = ToLowerCase(email)
    ELSE 0

C12_Success ==
    [status |-> 200, error |-> "",
     message |-> "If an account exists with that email, password reset instructions have been sent.",
     token |-> <<>>, tempToken |-> <<>>, attemptsRemaining |-> <<>>, secret |-> <<>>]

C12_Step ==
    \A s \in Slots :
        (Starts(s, "forgot-password") /\ reqs'[s].email # "")
        => LET id == AccountOf(reqs'[s].email)
           IN /\ reqs'[s].pc = "done"
              /\ reqs'[s].resp = C12_Success
              /\ IF id = 0
                 THEN users' = users /\ reqs'[s].sent = <<>>
                 ELSE \E raw \in 1..MaxRaw + 1 :
                        /\ reqs'[s].sent = <<raw>>
                        /\ users[id].reset_token # <<<<"sha256", raw>>>>
                        /\ users' = [users EXCEPT
                                ![id].reset_token = <<<<"sha256", raw>>>>,
                                ![id].reset_token_expiry = <<now + 120>>]

\* C12: forgot-password with a non-empty e-mail is answered with one and the same
\* success response whether or not the e-mail has an account; when it has none
\* the table is unchanged, and when it has one the only change is that the row
\* holds the hash of a newly drawn token and an expiry of now + 1 hour (120 steps).
C12_SameResponse == [][C12_Step]_vars

\* a forgot-password for the account's e-mail, written in another case, answered
C12_Witness ==
    \E s \in Slots :
        /\ reqs[s].op = "forgot-password" /\ reqs[s].pc = "done"
        /\ reqs[s].email = "Admin@Clinic.com"
        /\ reqs[s].resp = C12_Success
        /\ reqs[s].sent # <<>>
        /\ users[1].reset_token = <<<<"sha256", reqs[s].sent[1]>>>>
        /\ users[1].reset_token_expiry = <<now + 120>>

\* ------------------------------------------------------------ C13
\* the raw token r was never handed out, or its hour has passed, or a
\* reset-password has been answered with success for it
ResetDead(r) ==
    \/ r \notin DOMAIN resetLog
    \/ now >= resetLog[r].at + 120
    \/ resetLog[r].used

InvalidOrExpired(s) ==
    /\ reqs'[s].pc = "done"
    /\ reqs'[s].resp.status = 401
    /\ reqs'[s].resp.error = "Invalid or expired reset token"
    /\ users' = users

C13_OriginalStep ==
    \A s \in Slots :
        (/\ Starts(s, "reset-password")
         /\ reqs'[s].raw # <<>> /\ reqs'[s].password # ""
         /\ ResetDead(reqs'[s].raw[1]))
        => InvalidOrExpired(s)

\* C13 as stated: a reset-password that presents a token that was never handed
\* out, is past its hour or has been consumed by a successful reset-password is
\* answered invalid-or-expired and changes no row, whatever the new password.
C13_Original == [][C13_OriginalStep]_vars

C13_AmendedStep ==
    \A s \in Slots :
        (/\ Starts(s, "reset-password")
         /\ reqs'[s].raw # <<>>
         /\ StrLen(reqs'[s].password) >= 12
         /\ ResetDead(reqs'[s].raw[1]))
        => InvalidOrExpired(s)

\* C13 amended: a reset-password with a new password of at least 12 characters
\* that presents a token that was never handed out, is past its hour or has
\* been consumed by a successful reset-password is answered invalid-or-expired
\* and changes no row.
C13_DeadTokenRejected == [][C13_AmendedStep]_vars

\* a token presented at the very step its hour ends, still stored, answered 401
C13_Witness ==
    \E s \in Slots :
        /\ reqs[s].op = "reset-password" /\ reqs[s].pc = "done"
        /\ reqs[s].resp.status = 401
        /\ reqs[s].password = "new-password"
        /\ reqs[s].raw # <<>>
        /\ reqs[s].raw[1] \in DOMAIN resetLog
        /\ ~resetLog[reqs[s].raw[1]].used
        /\ now = resetLog[reqs[s].raw[1]].at + 120
        /\ users[1].reset_token = <<<<"sha256", reqs[s].raw[1]>>>>

\* ------------------------------------------------------------ C14
\* a later forgot-password has drawn another token for the same account
Superseded(r) ==
    \E r2 \in DOMAIN resetLog : r2 > r /\ resetLog[r2].uid = resetLog[r].uid

C14_Step ==
    \A s \in Slots :
        (/\ Starts(s, "reset-password")
         /\ reqs'[s].raw # <<>>
         /\ reqs'[s].raw[1] \in DOMAIN resetLog
         /\ StrLen(reqs'[s].password) >= 12)
        => LET r == reqs'[s].raw[1]
           IN /\ Superseded(r) => InvalidOrExpired(s)
              /\ (~Superseded(r) /\ ~ResetDead(r))
                 => (reqs'[s].pc = "update" /\ reqs'[s].uid = resetLog[r].uid)

\* C14: once a later forgot-password has drawn a token for the same account, a
\* reset-password that presents the earlier token is answered
\* invalid-or-expired and changes nothing, while one that presents the latest
\* token, unconsumed and within its hour, is accepted.
C14_Superseded == [][C14_Step]_vars

\* ------------------------------------------------------------ C15
C15_Weak(req) ==
    /\ req.op = "reset-password" /\ req.pc = "done"
    /\ req.resp.status = 400
    /\ req.resp.error = "Password must be at least 12 characters long"

\* the row of some account holds the hash of r with an expiry in the future
C15_Stored(r) ==
    \E i \in UserIds :
        /\ users[i].reset_token = <<<<"sha256", r>>>>
        /\ users[i].reset_token_expiry # <<>>
        /\ users[i].reset_token_expiry[1] > now

C15_Step ==
    \A s \in Slots :
        (/\ Starts(s, "reset-password")
         /\ reqs'[s].raw # <<>> /\ reqs'[s].password # "")
        => /\ C15_Weak(reqs'[s]) <=> StrLen(reqs'[s].password) < 12
           /\ StrLen(reqs'[s].password) < 12 => (users' = users /\ resetLog' = resetLog)
           /\ (StrLen(reqs'[s].password) >= 12 /\ C15_Stored(reqs'[s].raw[1]))
              => reqs'[s].pc = "update"

\* C15: a reset-password with a token and a new password is answered
\* weak-password exactly when the password has fewer than 12 characters, and
\* then no row changes: the password hash, the stored token hash and its expiry
\* are as before, and a token that is stored and within its expiry is accepted
\* when it is presented with a password of 12 characters or more.
C15_WeakChangesNothing == [][C15_Step]_vars

\* an 11-character password answered weak-password while the token presented
\* is stored and within its hour
C15_Witness ==
    \E s \in Slots :
        /\ C15_Weak(reqs[s])
        /\ reqs[s].password = "elevenchars"
        /\ reqs[s].raw # <<>>
        /\ users[1].reset_token = <<<<"sha256", reqs[s].raw[1]>>>>
        /\ users[1].reset_token_expiry # <<>>
        /\ users[1].reset_token_expiry[1] > now

\* ------------------------------------------------------------ C16
C16_Step ==
    \A s \in Slots :
        (/\ Answers(s, reqs'[s].op)
         /\ \/ reqs'[s].op = "login" /\ reqs'[s].resp.status = 200
            \/ reqs'[s].op = "disable-mfa" /\ reqs'[s].resp.status = 200
            \/ reqs'[s].op = "reset-password" /\ reqs'[s].resp.status = 200)
        => users'[reqs'[s].uid].failed_login_attempts = 0

\* C16: in the state a login or a disable-mfa answered with success leaves (the
\* password check succeeded), and in the state a reset-password answered with
\* success leaves, the failed-login counter of the account is 0.
C16_CounterCleared == [][C16_Step]_vars

\* ------------------------------------------------------------ C17
\* a step after which the request in slot s goes on to bcrypt.compare
ComparesPassword(s) == reqs[s].pc # "compare" /\ reqs'[s].pc = "compare"

C17_Step ==
    \A s \in Slots :
        ComparesPassword(s)
        => LET row == users[reqs'[s].uid]
           IN ~(row.locked_until # <<>> /\ row.locked_until[1] > now)

\* C17: no request, login or disable-mfa, goes on to compare a submitted
\* password with the stored hash of an account whose lockout expiry is set and
\* in the future when the request reads the row.
C17_LockBlocksCompare == [][C17_Step]_vars

\* ------------------------------------------------------------ C18
\* GOOGLE_ALLOWED_EMAILS is unset or is the empty string
AllowListEmpty == env = <<>> \/ env = << <<"">> >>

C18_Step ==
    AllowListEmpty
    => /\ users' = users
       /\ \A s \in Slots :
            (Starts(s, "google") /\ reqs'[s].email # "")
            => /\ reqs'[s].pc = "done"
               /\ reqs'[s].resp.error = "whitelist_not_configured"
               /\ reqs'[s].resp.token = <<>>

\* C18: while GOOGLE_ALLOWED_EMAILS is unset or the empty string, every Google
\* callback with a verified e-mail is answered whitelist-not-configured, without
\* a session token, and no step creates or updates a row.
C18_EmptyListFailsClosed == [][C18_Step]_vars

\* ------------------------------------------------------------ C19
\* GOOGLE_ALLOWED_EMAILS names at least one address
AllowListSet == env # <<>> /\ \E i \in DOMAIN env[1] : env[1][i] # ""

\* the e-mail is one of the listed addresses, letter case and the blanks around
\* a listed address aside
Listed(email) ==
    \E i \in DOMAIN env[1] : ToLowerCase(Trim(env[1][i])) = ToLowerCase(email)

C19_Step ==
    AllowListSet
    => \A s \in Slots :
        (Starts(s, "google") /\ reqs'[s].email # "")
        => IF Listed(reqs'[s].email)
           THEN reqs'[s].pc \in {"count", "touch"}
           ELSE /\ reqs'[s].pc = "done"
                /\ reqs'[s].resp.error = "unauthorized_account"
                /\ reqs'[s].resp.token = <<>>
                /\ users' = users

\* C19: with a list configured, a Google callback with a verified e-mail that is
\* not on the list, compared without regard to letter case, is answered
\* not-authorized with no session token and no row created or changed; an
\* e-mail that differs from a listed one only in letter case passes the gate.
C19_NotListedRejected == [][C19_Step]_vars

\* an unlisted e-mail rejected, after doc@clinic.com (sent as Doc@Clinic.com)
\* and nurse@clinic.com (listed as Nurse@Clinic.com) passed the gate
C19_Witness ==
    \E s \in Slots :
        /\ reqs[s].op = "google" /\ reqs[s].pc = "done"
        /\ reqs[s].email = "stranger@gmail.com"
        /\ reqs[s].resp.error = "unauthorized_account"
        /\ Len(users) = 5
        /\ users[5].email \in {"doc@clinic.com", "nurse@clinic.com"}

\* ------------------------------------------------------------ C20
C20_Step ==
    \A s \in Slots :
        /\ (/\ Starts(s, "google") /\ reqs'[s].email # ""
            /\ AllowListSet /\ Listed(reqs'[s].email)
            /\ AccountOf(reqs'[s].email) = 0
            /\ Len(users) >= 5)
           => (reqs'[s].pc = "count" /\ users' = users)
        /\ (/\ reqs[s].op = "google" /\ reqs[s].pc = "count"
            /\ reqs'[s] # reqs[s]
            /\ Len(users) >= 5)
           => /\ reqs'[s].pc = "done"
              /\ reqs'[s].resp.error = "max_users_reached"
              /\ reqs'[s].resp.token = <<>>
              /\ users' = users
        /\ Len(users') >= Len(users)

\* C20: a Google callback for a listed e-mail without an account, made when the
\* table holds 5 rows or more, goes on to count the rows, and a callback that
\* counts 5 rows or more is answered capacity-reached with no session token and
\* no row created; the number of rows never drops.
C20_CapacityReached == [][C20_Step]_vars

\* a listed e-mail without an account answered capacity-reached at 5 rows
C20_Witness ==
    \E s \in Slots :
        /\ reqs[s].op = "google" /\ reqs[s].pc = "done"
        /\ reqs[s].resp.error = "max_users_reached"
        /\ Len(users) = 5
        /\ \A i \in 1..5 : users[i].email # ToLowerCase(reqs[s].email)

\* ------------------------------------------------------------ C21
\* the rows that hold the e-mail
RowsOf(table, email) == {i \in DOMAIN table : table[i].email = email}

C21_AtMostOne ==
    \A i, j \in UserIds : users[i].email = users[j].email => i = j

C21_Step ==
    \A s \in Slots :
        (reqs[s].op = "google" /\ reqs[s].pc = "insert" /\ reqs'[s].pc = "done")
        => Cardinality(RowsOf(users', ToLowerCase(reqs[s].email))) = 1

\* C21: no two rows hold the same e-mail, and when a Google callback that found
\* no account for its e-mail and counted fewer than 5 rows has been answered,
\* the table holds exactly one row with that e-mail, whatever other callbacks
\* for the same e-mail ran in between.
C21_CreatedOnce == []C21_AtMostOne /\ [][C21_Step]_vars

\* two callbacks for the same new e-mail both answered: one with a session
\* token, one with an error, and one row for the e-mail
C21_Witness ==
    /\ reqs[1].op = "google" /\ reqs[1].pc = "done"
    /\ reqs[2].op = "google" /\ reqs[2].pc = "done"
    /\ reqs[1].email = "Doc@Clinic.com" /\ reqs[2].email = "Doc@Clinic.com"
    /\ reqs[1].resp.token # <<>>
    /\ reqs[2].resp.error = "oauth_failed"
    /\ Cardinality(RowsOf(users, "doc@clinic.com")) = 1

\* ------------------------------------------------------------ C22
C22_Step ==
    \A s \in Slots :
        /\ (/\ Starts(s, "google") /\ reqs'[s].email # ""
            /\ AllowListSet /\ Listed(reqs'[s].email)
            /\ AccountOf(reqs'[s].email) # 0)
           => /\ reqs'[s].pc = "touch"
              /\ reqs'[s].uid = AccountOf(reqs'[s].email)
              /\ users' = users
        /\ (reqs[s].op = "google" /\ reqs[s].pc = "touch" /\ reqs'[s] # reqs[s])
           => LET id == reqs[s].uid
              IN /\ reqs'[s].pc = "done"
                 /\ reqs'[s].resp.error = ""
                 /\ reqs'[s].resp.token # <<>>
                 /\ reqs'[s].resp.token[1].userId = id
                 /\ reqs'[s].resp.token[1].email = <<users[id].email>>
                 /\ ~reqs'[s].resp.token[1].temp
                 /\ users' = [users EXCEPT ![id].last_login = <<now>>]

\* C22: a Google callback for a listed e-mail that has an account goes on to
\* that account without counting the rows, is answered with a session token
\* for that account, and changes nothing but the last_login of that row: no
\* other column of the row, no other row, and no row is added.
C22_ExistingAccount == [][C22_Step]_vars

\* the admin signs in through Google, with the e-mail in another letter case,
\* while the table is at the limit of 5 rows, at a later time than the last login
C22_Witness ==
    \E s \in Slots :
        /\ reqs[s].op = "google" /\ reqs[s].pc = "done"
        /\ reqs[s].email = "Admin@Clinic.com"
        /\ reqs[s].resp.token # <<>>
        /\ Len(users) >= 5
        /\ now > 0
        /\ users[1].last_login = <<now>>

\* ------------------------------------------------------------ C23
\* the request in slot s is answered "MFA enabled successfully" in this step
EnableMfaSucceeds(s) ==
    /\ Answers(s, "enable-mfa")
    /\ reqs'[s].resp.status = 200

C23_Step ==
    \A s \in Slots :
        /\ EnableMfaSucceeds(s)
           => LET id == reqs[s].uid
              IN /\ users[id].mfa_secret_temp # <<>>
                 /\ users'[id].mfa_enabled
                 /\ users'[id].mfa_secret = <<reqs[s].code[1][1]>>
                 /\ users'[id].mfa_secret_temp = <<>>
        /\ (Answers(s, "verify-mfa") /\ reqs'[s].resp.token # <<>>)
           => users[reqs'[s].uid].mfa_secret = <<reqs'[s].code[1][1]>>

\* C23: an enable-mfa answered with success finds a pending secret stored and
\* leaves the account with MFA enabled, the secret of the code it was sent as
\* the active secret and no pending secret (so a second enable-mfa without a
\* new setup-mfa is not answered with success); verify-mfa answers with a
\* session token only for a code of the active secret.
C23_Promotion == [][C23_Step]_vars

\* ------------------------------------------------------------ C24
C24_Step ==
    \A s \in Slots :
        EnableMfaSucceeds(s)
        => /\ reqs[s].snap.mfa_secret_temp # <<>>
           /\ users'[reqs[s].uid].mfa_secret = reqs[s].snap.mfa_secret_temp

\* C24: the secret that an enable-mfa answered with success makes active is the
\* pending secret it read and validated the code against, whatever setup-mfa
\* and enable-mfa requests for the account ran between that read and the
\* update: never a secret stored later and never NULL.
C24_AtomicPromotion == [][C24_Step]_vars

\* ------------------------------------------------------------ C25
\* the code is one of another secret, or of a time step more than two steps
\* away from step t
WrongCode(code, secret, t) ==
    \/ code[1][1] # secret[1]
    \/ code[1][2] - t > 2
    \/ t - code[1][2] > 2

C25_Step ==
    \A s \in Slots :
        LET req == reqs'[s]
            id == SelectById(Val(req.token).userId)
        IN (/\ Starts(s, "enable-mfa")
            /\ AuthenticateToken(req.token, now) = 200
            /\ req.code # <<>>
            /\ id # 0
            /\ users[id].mfa_secret_temp # <<>>
            /\ WrongCode(req.code, users[id].mfa_secret_temp, now))
           => /\ req.pc = "done"
              /\ req.resp = Resp(401, "Invalid MFA code")
              /\ users' = users

\* C25: an authenticated enable-mfa for an account with a pending secret, sent
\* with a code that is not a code of that secret within two time steps, is
\* answered 401 "Invalid MFA code" and changes no row: the pending secret, the
\* active secret and mfa_enabled keep their values.
C25_InvalidCodeKeepsPending == [][C25_Step]_vars

C25_Witness ==
    \E s \in Slots :
        /\ reqs[s].op = "enable-mfa"
        /\ reqs[s].pc = "done"
        /\ reqs[s].resp = Resp(401, "Invalid MFA code")
        /\ reqs[s].code = <<TotpCode(1, now + 3)>>
        /\ users[1].mfa_secret_temp = <<1>>

\* ------------------------------------------------------------ C26
C26_Step ==
    \A s \in Slots :
        Answers(s, "setup-mfa")
        => IF reqs'[s].resp.status = 200
           THEN LET id == reqs'[s].uid
                IN /\ reqs'[s].resp.secret # <<>>
                   /\ users' = [users EXCEPT
                                  ![id].mfa_secret_temp = reqs'[s].resp.secret]
                   /\ RequiresMfa(users'[id]) = RequiresMfa(users[id])
           ELSE users' = users

\* C26: a setup-mfa answered with success stores the secret it returns as the
\* pending secret of the caller's row, over any pending secret stored before,
\* and changes nothing else: mfa_enabled and the active secret keep their values
\* and login asks for the second factor exactly when it did before. A setup-mfa
\* answered otherwise changes no row.
C26_OnlyPendingChanges == [][C26_Step]_vars

C26_Witness ==
    \E s \in Slots, id \in UserIds :
        /\ reqs[s].op = "setup-mfa"
        /\ reqs[s].pc = "done"
        /\ reqs[s].resp.secret = <<2>>
        /\ reqs[s].uid = id
        /\ users[id].mfa_enabled
        /\ users[id].mfa_secret = <<1>>
        /\ users[id].mfa_secret_temp = <<2>>

\* ------------------------------------------------------------ C27
C27_Step ==
    /\ \A s \in Slots :
         (Answers(s, "disable-mfa") /\ reqs[s].pc = "compare")
         => LET id == reqs[s].uid
            IN IF users[id].password_hash = BcryptHash(reqs[s].password)
               THEN /\ reqs'[s].resp = Ok("MFA disabled successfully")
                    /\ users' = [users EXCEPT ![id].mfa_enabled = FALSE,
                                              ![id].mfa_secret = <<>>]
               ELSE /\ reqs'[s].resp = Resp(401, "Invalid password")
                    /\ users' = users
    /\ \A id \in UserIds :
         (\/ users[id].mfa_enabled /\ ~users'[id].mfa_enabled
          \/ users[id].mfa_secret # <<>> /\ users'[id].mfa_secret = <<>>)
         => \E s \in Slots :
                /\ Answers(s, "disable-mfa")
                /\ reqs[s].uid = id
                /\ reqs[s].token # <<>>
                /\ users[id].password_hash = BcryptHash(reqs[s].password)

\* C27: disable-mfa sets mfa_enabled to FALSE and the active secret to NULL, and
\* nothing else, when the password sent with it is the one the stored hash was
\* made from; with another password it answers 401 "Invalid password" and
\* changes no row. No step clears mfa_enabled or the active secret of an account
\* except a disable-mfa that carried that account's password.
C27_PasswordGuardsDisable == [][C27_Step]_vars

C27_Witness ==
    \E s \in Slots :
        /\ reqs[s].op = "disable-mfa"
        /\ reqs[s].pc = "done"
        /\ reqs[s].password = AdminPassword
        /\ reqs[s].resp = Ok("MFA disabled successfully")
        /\ ~users[reqs[s].uid].mfa_enabled
        /\ users[reqs[s].uid].mfa_secret = <<>>

\* ------------------------------------------------------------ C28
\* the time step a code was generated for is within two steps of step t
InWindow(code, t) == t - 2 <= code[1][2] /\ code[1][2] <= t + 2

C28_Step ==
    \A s \in Slots :
        LET req == reqs'[s]
            id == SelectById(Val(req.token).userId)
        IN /\ (/\ Starts(s, "verify-mfa")
               /\ req.token # <<>> /\ req.code # <<>>
               /\ JwtVerify(Val(req.token), JWT_SECRET, now)
               /\ IsPending(Val(req.token))
               /\ id # 0
               /\ users[id].mfa_enabled
               /\ users[id].mfa_secret = <<req.code[1][1]>>)
              => IF InWindow(req.code, now)
                 THEN req.resp.status = 200 /\ req.resp.token # <<>>
                 ELSE req.resp = Resp(401, "Invalid MFA code")
           /\ (/\ Starts(s, "enable-mfa")
               /\ AuthenticateToken(req.token, now) = 200
               /\ req.code # <<>>
               /\ id # 0
               /\ users[id].mfa_secret_temp = <<req.code[1][1]>>)
              => IF InWindow(req.code, now)
                 THEN req.pc = "update"
                 ELSE req.pc = "done" /\ req.resp = Resp(401, "Invalid MFA code")

\* C28: verify-mfa, for the active secret, and enable-mfa, for the pending
\* secret, accept a code generated for time step s exactly when the server's
\* time step t satisfies s - 2 <= t <= s + 2; for every other t the answer is
\* 401 "Invalid MFA code".
C28_WindowOfTwo == [][C28_Step]_vars

\* a code of two steps ahead has been accepted by verify-mfa after the clock
\* moved, and the account's enrolment had accepted a code of its pending secret
C28_Witness ==
    \E s \in Slots :
        /\ reqs[s].op = "verify-mfa"
        /\ reqs[s].pc = "done"
        /\ reqs[s].resp.token # <<>>
        /\ now > 0
        /\ reqs[s].code = <<TotpCode(1, now + 2)>>
        /\ users[reqs[s].uid].mfa_secret = <<1>>

\* ------------------------------------------------------------ C29
C29_Step ==
    \A s \in Slots :
        /\ (Starts(s, "login") /\ reqs'[s].pc = "compare")
           => LET user == users[reqs'[s].uid]
              IN /\ ~IsLocked(user, now)
                 /\ reqs'[s].snap.failed_login_attempts = user.failed_login_attempts
        /\ (/\ Answers(s, "login")
            /\ reqs[s].pc = "compare"
            /\ reqs[s].snap.password_hash # BcryptHash(reqs[s].password))
           => LET c == reqs[s].snap.failed_login_attempts
                  row == users'[reqs[s].uid]
              IN /\ row.failed_login_attempts = c + 1
                 /\ row.locked_until = IF c + 1 >= 5 THEN <<now + 30>> ELSE <<>>
                 /\ reqs'[s].resp.status = 401
                 /\ reqs'[s].resp.attemptsRemaining =
                        <<IF c + 1 >= 5 THEN 0 ELSE 5 - (c + 1)>>

\* C29: a login that passes the lock check reads the stored counter c of an
\* account that is not locked; if its password is wrong it stores c + 1 and
\* answers 401 with attemptsRemaining = max(0, 5 - (c + 1)), and when c + 1
\* reaches 5 it stores a lock that ends 15 minutes after the time of the write
\* (from c = 4: counter 5, attemptsRemaining 0).
C29_CounterAndRemaining == [][C29_Step]_vars

C29_Witness ==
    \E s \in Slots :
        /\ reqs[s].op = "login"
        /\ reqs[s].pc = "done"
        /\ reqs[s].resp.attemptsRemaining = <<0>>
        /\ users[reqs[s].uid].failed_login_attempts = 5
        /\ users[reqs[s].uid].locked_until = <<now + 30>>
        /\ now > 0

\* ------------------------------------------------------------ C30
\* the statuses with which login reports on the credentials or the account
CredentialStatuses == {200, 400, 401, 423}

C30_Step ==
    \A s \in Slots :
        LET resp == reqs'[s].resp
            id == reqs[s].uid
        IN /\ (Answers(s, "login") /\ resp.status \notin CredentialStatuses)
              => /\ resp = Resp(500, "Internal server error")
                 /\ users' = users
           /\ (Answers(s, "login") /\ reqs[s].pc = "compare")
              => \/ /\ resp.status = 200
                    /\ (resp.token = <<>>) # (resp.tempToken = <<>>)
                    /\ reqs[s].snap.password_hash = BcryptHash(reqs[s].password)
                    /\ users'[id].failed_login_attempts = 0
                    /\ users'[id].locked_until = <<>>
                    /\ users'[id].last_login = <<now>>
                 \/ /\ resp.status = 401
                    /\ resp.attemptsRemaining # <<>>
                    /\ reqs[s].snap.password_hash # BcryptHash(reqs[s].password)
                    /\ users'[id].failed_login_attempts =
                          reqs[s].snap.failed_login_attempts + 1
                 \/ /\ resp.status \notin CredentialStatuses
                    /\ resp.token = <<>> /\ resp.tempToken = <<>>
                    /\ resp.attemptsRemaining = <<>>

\* C30: a login answers with a session token or an MFA-pending token only in
\* the step that has stored the reset counter, the cleared lock and last_login,
\* and with 401 and attemptsRemaining only in the step that has stored the
\* incremented counter; when the store fails instead, the answer has a status
\* that no credential outcome has (not 200, 400, 401 or 423): it is 500
\* "Internal server error", carries neither token, and no row has changed.
C30_PersistThenAnswer == [][C30_Step]_vars

\* the right password after two wrong ones, the UPDATE failed: 500, no token,
\* the counter still 2
C30_Witness ==
    \E s \in Slots :
        /\ reqs[s].op = "login"
        /\ reqs[s].pc = "done"
        /\ reqs[s].uid = 1
        /\ reqs[s].password = AdminPassword
        /\ reqs[s].resp = Resp(500, "Internal server error")
        /\ users[1].failed_login_attempts = 2

\* ------------------------------------------------------------ C31
C31_Step ==
    \A s \in Slots :
        (Answers(s, "reset-password") /\ reqs'[s].resp.status = 200)
        => LET id == reqs[s].uid
           IN /\ users' = [users EXCEPT
                             ![id].password_hash = BcryptHash(reqs[s].password),
                             ![id].reset_token = <<>>,
                             ![id].reset_token_expiry = <<>>,
                             ![id].password_changed_at = <<now>>]
              /\ IsLocked(users'[id], now) = IsLocked(users[id], now)
              /\ RequiresMfa(users'[id]) = RequiresMfa(users[id])

\* C31: a reset-password answered with success changes, in the row of the
\* account, the password hash, the reset token and its expiry (both NULL) and
\* password_changed_at, and nothing else: failed_login_attempts, locked_until,
\* mfa_enabled and the MFA secrets keep their values, so a locked account is
\* still locked and an account that required MFA still requires it.
C31_ResetFrame == [][C31_Step]_vars

C31_Witness ==
    \E s \in Slots :
        /\ reqs[s].op = "reset-password"
        /\ reqs[s].pc = "done"
        /\ reqs[s].resp.status = 200
        /\ users[1].password_hash = BcryptHash("new-password")
        /\ users[1].failed_login_attempts = 5
        /\ IsLocked(users[1], now)
        /\ RequiresMfa(users[1])

\* ------------------------------------------------------------ C32
C32_Step ==
    \A s \in Slots :
        LET bearer == reqs'[s].token
        IN (/\ \E op \in ProtectedOps : Starts(s, op)
            /\ bearer # <<>>
            /\ Val(bearer).key = "jwt-secret"
            /\ ~Val(bearer).temp
            /\ now < Val(bearer).iat + 960)
           => ~Rejected(reqs'[s])

\* C32: a request to a protected route that carries a session token signed by
\* the server is let through by authenticateToken at every time before 8 hours
\* (960 steps) after the token was minted, whatever has happened to the account
\* since: wrong-password logins and a lockout, a password reset, an MFA
\* enrolment.
C32_NeverRevoked == [][C32_Step]_vars

\* /me answered at the last step of the 8 hours, the account by then locked,
\* its password reset and MFA enabled after the token was minted
C32_Witness ==
    /\ reqs[1].op = "me"
    /\ reqs[1].pc = "done"
    /\ reqs[1].resp.status = 200
    /\ Val(reqs[1].token).iat = 0
    /\ now = 959
    /\ users[1].password_changed_at = <<959>>
    /\ IsLocked(users[1], now)
    /\ users[1].mfa_enabled
    /\ reqs[2].op = "login" /\ reqs[2].resp.status = 423

\* ------------------------------------------------------------ C33
\* C33: in every reachable state and for every account, mfa_enabled is TRUE if
\* and only if an active secret is stored.
C33_EnabledIffSecret ==
    \A id \in UserIds : users[id].mfa_enabled <=> users[id].mfa_secret # <<>>

\* ------------------------------------------------------------ C34
\* C34: whatever login, verify-mfa, setup-mfa, enable-mfa and disable-mfa
\* requests are made by a client that has the password of an MFA-enabled account
\* but no valid code of its active secret, the account keeps mfa_enabled and
\* its active secret, and no session token for the account is issued.
C34_NoBypass ==
    /\ users[1].mfa_enabled
    /\ users[1].mfa_secret = <<0>>
    /\ \A tok \in KnownTokens :
          ~(tok.key = "jwt-secret" /\ tok.userId = 1 /\ ~tok.temp)

\* ------------------------------------------------------------ C35
C35_LockIffFive ==
    \A id \in UserIds :
        users[id].locked_until # <<>> <=> users[id].failed_login_attempts >= 5

C35_Step ==
    \A id \in UserIds :
        (\/ users'[id].failed_login_attempts # users[id].failed_login_attempts
         \/ users'[id].locked_until # users[id].locked_until)
        => \E s \in Slots :
               /\ Answers(s, "login")
               /\ reqs[s].pc = "compare"
               /\ reqs[s].uid = id

\* C35: in every reachable state and for every account, locked_until is set if
\* and only if failed_login_attempts is at least 5; the two columns change only
\* in the step in which a login stores the outcome of its password check, and
\* no other operation writes either of them.
C35_LockWithCounter == []C35_LockIffFive /\ [][C35_Step]_vars

\* five wrong passwords at 0, the lock long over, the password reset since
C35_Witness ==
    /\ users[1].failed_login_attempts = 5
    /\ users[1].locked_until = <<30>>
    /\ now = 959
    /\ users[1].password_changed_at = <<959>>
    /\ users[1].mfa_enabled

\* ------------------------------------------------------------ C36
C36_Step ==
    \A s \in Slots :
        /\ (Answers(s, "login") /\ reqs'[s].resp.status = 423)
           => users' = users
        /\ \A id \in UserIds :
             (/\ Starts(s, "login")
              /\ reqs'[s].email # "" /\ reqs'[s].password # ""
              /\ users[id].email = ToLowerCase(reqs'[s].email)
              /\ users[id].locked_until # <<>>
              /\ now < users[id].locked_until[1])
             => /\ reqs'[s].pc = "done"
                /\ reqs'[s].resp.status = 423

\* C36: a login made while the lock of its account has not run out is answered
\* 423 at once, and a login answered 423 changes no row: the counter is not
\* incremented and locked_until is not moved, so the attempts made during a
\* lockout do not make it longer.
C36_LockedLeavesRow == [][C36_Step]_vars

\* a wrong password rejected in the last step of the lockout, the counter
\* still 5 and the lock still the one the fifth failure set
C36_Witness ==
    \E s \in Slots :
        /\ reqs[s].op = "login" /\ reqs[s].pc = "done"
        /\ reqs[s].resp.status = 423
        /\ reqs[s].password = WrongPassword
        /\ users[reqs[s].uid].failed_login_attempts = 5
        /\ users[reqs[s].uid].locked_until = <<fails[reqs[s].uid].at + 30>>
        /\ now = fails[reqs[s].uid].at + 29

\* ------------------------------------------------------------ C37
C37_Step ==
    /\ \A id \in UserIds :
         (now' # now) => users'[id] = users[id]
    /\ \A s \in Slots :
         LET id == reqs[s].uid
             c == reqs[s].snap.failed_login_attempts
         IN (/\ Answers(s, "login")
             /\ reqs[s].pc = "compare"
             /\ c >= 5)
            => IF users[id].password_hash = BcryptHash(reqs[s].password)
               THEN /\ reqs'[s].resp.status = 200
                    /\ users'[id].failed_login_attempts = 0
                    /\ users'[id].locked_until = <<>>
               ELSE /\ reqs'[s].resp.status = 401
                    /\ reqs'[s].resp.attemptsRemaining = <<0>>
                    /\ users'[id].failed_login_attempts = c + 1
                    /\ users'[id].locked_until = <<now + 30>>

\* C37: the passing of time changes no row, so a lock that has run out leaves
\* the counter at 5 or more; the next login for the account then passes the lock
\* check, and with a wrong password it locks the account for another 15 minutes
\* and reports attemptsRemaining = 0, while with the right password it succeeds
\* and stores counter 0 and no lock.
C37_ExpiryKeepsCounter == [][C37_Step]_vars

\* one wrong password after the lock of five failures had run out
C37_Witness ==
    \E s \in Slots :
        /\ reqs[s].op = "login" /\ reqs[s].pc = "done"
        /\ reqs[s].resp.status = 401
        /\ reqs[s].resp.attemptsRemaining = <<0>>
        /\ users[reqs[s].uid].failed_login_attempts = 6
        /\ users[reqs[s].uid].locked_until = <<now + 30>>
        /\ now >= 30

\* ------------------------------------------------------------ C38
C38_Step ==
    \A s \in Slots :
        LET req == reqs'[s]
            id == SelectById(Val(req.token).userId)
        IN /\ Answers(s, "verify-mfa") => users' = users
           /\ (/\ Starts(s, "verify-mfa")
               /\ req.token # <<>> /\ req.code # <<>>
               /\ Val(req.token).key = "jwt-secret"
               /\ Val(req.token).temp
               /\ now < Val(req.token).iat + 10
               /\ id # 0
               /\ users[id].mfa_enabled
               /\ users[id].mfa_secret = <<req.code[1][1]>>
               /\ InWindow(req.code, now))
              => req.resp.status = 200 /\ req.resp.token # <<>>

\* C38: verify-mfa changes no row, whatever it answers: a wrong code does not
\* touch failed_login_attempts or locked_until. An MFA-pending token that has
\* not expired (5 minutes, 10 steps) is accepted with a code in the window every
\* time it is presented, whatever was answered to it before: neither the token
\* nor the code is used up.
C38_VerifyWritesNothing == [][C38_Step]_vars

\* the same pending token and the same code accepted at two different times,
\* no failure counted
C38_Witness ==
    /\ reqs[1].op = "verify-mfa" /\ reqs[2].op = "verify-mfa"
    /\ reqs[1].token = reqs[2].token
    /\ reqs[1].code = reqs[2].code
    /\ reqs[1].resp.token # <<>> /\ reqs[2].resp.token # <<>>
    /\ Val(reqs[1].resp.token).iat < Val(reqs[2].resp.token).iat
    /\ users[1].failed_login_attempts = 0

\* ------------------------------------------------------------ C39
\* the e-mail is on a configured allow-list
OnAllowList(email) == env # <<>> /\ Listed(email)

C39_Step ==
    \A s \in Slots :
        /\ (/\ Starts(s, "google") /\ reqs'[s].email # ""
            /\ AccountOf(reqs'[s].email) # 0)
           => IF OnAllowList(reqs'[s].email)
              THEN reqs'[s].pc = "touch"
              ELSE /\ reqs'[s].pc = "done"
                   /\ reqs'[s].resp.token = <<>>
                   /\ users' = users
        /\ (Answers(s, "google") /\ reqs[s].pc = "touch")
           => LET id == reqs[s].uid
              IN /\ reqs'[s].resp.token # <<>>
                 /\ ~reqs'[s].resp.token[1].temp
                 /\ reqs'[s].resp.token[1].userId = id
                 /\ reqs'[s].resp.tempToken = <<>>
                 /\ users'[id].locked_until = users[id].locked_until
                 /\ users'[id].failed_login_attempts = users[id].failed_login_attempts
                 /\ users'[id].mfa_enabled = users[id].mfa_enabled

\* C39: a Google callback for the e-mail of an existing account is turned away
\* without a session token and without a write when the e-mail is not on the
\* allow-list; when it is on the list, the callback goes on to issue a session
\* token for the account whatever its lock and MFA state, which it leaves as
\* they are.
C39_GateBeforeAccount == [][C39_Step]_vars

\* a session token for the admin account while it is locked and has MFA enabled
C39_Witness ==
    \E s \in Slots :
        /\ reqs[s].op = "google" /\ reqs[s].pc = "done"
        /\ reqs[s].email = "admin@clinic.com"
        /\ reqs[s].resp.token # <<>>
        /\ users[1].failed_login_attempts = 5
        /\ IsLocked(users[1], now)
        /\ RequiresMfa(users[1])

====
